---- MODULE Spec2Model ----
(***************************************************************************)
(* Verification model of the qa-playwright-pytest framework: settings      *)
(* resolution (config.py), session counters, outcome derivation and the    *)
(* per-test artifact lifecycle (conftest.py), the metrics export           *)
(* (metrics.py) and page navigation (pages/base_page.py).                  *)
(*                                                                         *)
(* A Python str is a sequence of one-character strings, so that strip(),   *)
(* lower(), partition() and int() are computed character by character.     *)
(* A Python value of varying type is a tagged record [t |-> tag, v |-> x]. *)
(***************************************************************************)
EXTENDS Integers, Sequences, FiniteSets, TLC

VARIABLES
    cli,        \* option values held by the pytest config (None when not given)
    env,        \* os.environ restricted to the framework's variables
    result,     \* what the resolution call just made returned or raised; reset to
                \* "none" when options or environment change afterwards
    cache,      \* pytest_config._qa_settings_cache
    call,       \* which entry point the last resolution call went through
    nextId,     \* identity of the next Settings instance to be constructed
    builds      \* number of Settings instances constructed through the cache

settingsVars == <<cli, env, result, cache, call, nextId, builds>>

VARIABLES
    _session_start,     \* conftest._session_start: "none" until pytest_sessionstart
    _session_results,   \* conftest._session_results: passed / failed / skipped
    _rerun_nodeids,     \* conftest._rerun_nodeids
    _counted_nodeids,   \* conftest._counted_nodeids
    report,             \* the report handed to the last pytest_runtest_logreport
    fate,               \* what happens to each collected case, "none" until it starts
    current,            \* the case being executed (0 before the first)
    pos,                \* how many reports of the current case were produced
    testscollected,     \* session.testscollected
    metrics_path,       \* whether METRICS_PATH was set when the session finished
    sessionPc,          \* "created", "running" or "finished"
    summary,            \* the SessionMetrics handed to write_metrics, if any
    driver              \* who calls the hooks: pytest's "runner", case by case and
                        \* phase by phase, or callers bound to no pattern ("free")

reportVars == <<_session_start, _session_results, _rerun_nodeids, _counted_nodeids,
                report, fate, current, pos, testscollected, metrics_path, sessionPc,
                summary, driver>>

VARIABLES
    item_rep,   \* item.rep_setup / rep_call / rep_teardown: the outcome of the last
                \* report of each phase, "none" while the attribute is missing
    made,       \* the last hook call on the item: "start" for pytest_runtest_setup,
                \* else the phase of the report pytest_runtest_makereport saw
    started,    \* whether item._qa_test_started_at is set
    event       \* the last structured event logged for the item

outcomeVars == <<item_rep, made, started, event>>

VARIABLES
    modes,          \* settings.screenshot / settings.trace / settings.video
    pagePc,         \* where the page fixture of the item stands
    test_dir,       \* the case's artifact directory on disk: whether it exists
                    \* and the files in it
    tracing,        \* context.tracing: "idle", "started" or "stopped"
    context,        \* the browser context: "none", "open" or "closed"
    console_errors, \* len(console_errors)
    page_errors,    \* len(page_errors)
    page_failed,    \* the teardown's local `failed`
    artifacts,      \* keys of the teardown's local `artifacts`
    _qa_artifacts,  \* keys of item._qa_artifacts
    video_path_to_delete,   \* whether the teardown's video_path_to_delete is set
    decided,        \* what _should_persist returned for each kind it was asked about
    written,        \* the files the teardown wrote into the directory
    faults,         \* the calls into Playwright and the filesystem that failed
    log,            \* the events logged through LOGGER.exception
    calls           \* the calls the fixture made into pytest's item, Playwright
                    \* and the filesystem, and each _should_persist it asked, in order

pageVars == <<modes, pagePc, test_dir, tracing, context, console_errors, page_errors,
              page_failed, artifacts, _qa_artifacts, video_path_to_delete, decided,
              written, faults, log, calls>>

VARIABLES
    nodeids,        \* the node ids of two test cases of one run
    artifact_dir,   \* the name of each case's directory under artifacts_dir, None
                    \* until the case begins
    resanitized     \* the name that sanitizing a case's directory name gives

dirVars == <<nodeids, artifact_dir, resanitized>>

VARIABLES
    files,      \* the metrics file and its temporary sibling: None when the path
                \* does not exist, else which write's content it holds and how
                \* many of its chunks
    writePc,    \* where the current write_metrics call stands
    writes,     \* how many write_metrics calls were started
    seen        \* what a reader of the target path read last

metricsVars == <<files, writePc, writes, seen>>

VARIABLES
    gotoPc,     \* where the current BasePage.goto call stands
    url,        \* the path under base_url the current call navigates to
    attempts,   \* how each page.goto of the current call ended, in order
    history     \* the finished calls: url, attempts, and how the call ended

gotoVars == <<gotoPc, url, attempts, history>>

vars == <<settingsVars, reportVars, outcomeVars, pageVars, dirVars, metricsVars, gotoVars>>

\* what the actions of one component leave alone
NotSettings == <<reportVars, outcomeVars, pageVars, dirVars, metricsVars, gotoVars>>
NotReport == <<settingsVars, outcomeVars, pageVars, dirVars, metricsVars, gotoVars>>
NotOutcome == <<settingsVars, reportVars, pageVars, dirVars, metricsVars, gotoVars>>
NotPage == <<settingsVars, reportVars, outcomeVars, dirVars, metricsVars, gotoVars>>
NotDirs == <<settingsVars, reportVars, outcomeVars, pageVars, metricsVars, gotoVars>>
NotMetrics == <<settingsVars, reportVars, outcomeVars, pageVars, dirVars, gotoVars>>
NotGoto == <<settingsVars, reportVars, outcomeVars, pageVars, dirVars, metricsVars>>

(***************************************************************************)
(* Bounds of the model.                                                    *)
(***************************************************************************)
\* how many option/environment slots are given a value before resolution
MaxSet == 2
\* how many Settings instances one run context may come to construct
MaxInstances == 2
\* how many test cases a session collects at most
MaxCases == 5
\* how many node ids the reports of a session bound to no pattern are about
MaxFreeIds == 2
\* how many console errors, and how many page errors, one case observes
MaxErrors == 1
\* how long a node id is at most
MaxIdLen == 3
\* how many times write_metrics is called on the path
MaxWrites == 3
\* in how many pieces the bytes of one metrics file reach the disk
Chunks == 3
\* how many times goto is called on a page object
MaxGotos == 2

(***************************************************************************)
(* Python values.                                                          *)
(***************************************************************************)
None == [t |-> "none"]
PyStr(s) == [t |-> "str", v |-> s]
PyInt(i) == [t |-> "int", v |-> i]
PyBool(b) == [t |-> "bool", v |-> b]

\* str.strip(): whitespace removed at both ends
Whitespace == {" ", "\t"}

RECURSIVE LStrip(_)
LStrip(s) == IF s # <<>> /\ Head(s) \in Whitespace THEN LStrip(Tail(s)) ELSE s

RECURSIVE RStrip(_)
RStrip(s) ==
    IF s # <<>> /\ s[Len(s)] \in Whitespace THEN RStrip(SubSeq(s, 1, Len(s) - 1)) ELSE s

Strip(s) == RStrip(LStrip(s))

\* str.lower()
Upper == <<"A","B","C","D","E","F","G","H","I","J","K","L","M",
           "N","O","P","Q","R","S","T","U","V","W","X","Y","Z">>
LowerOf == <<"a","b","c","d","e","f","g","h","i","j","k","l","m",
             "n","o","p","q","r","s","t","u","v","w","x","y","z">>

LowerChar(c) ==
    IF \E i \in 1..Len(Upper) : Upper[i] = c
    THEN LowerOf[CHOOSE i \in 1..Len(Upper) : Upper[i] = c]
    ELSE c

Lower(s) == [i \in 1..Len(s) |-> LowerChar(s[i])]

\* int(str): optional surrounding whitespace, optional sign, decimal digits
\* with single underscores allowed between digits
Digits == <<"0","1","2","3","4","5","6","7","8","9">>
IsDigit(c) == \E i \in 1..10 : Digits[i] = c
DigitVal(c) == (CHOOSE i \in 1..10 : Digits[i] = c) - 1

IsIntBody(s) ==
    /\ s # <<>>
    /\ IsDigit(s[1]) /\ IsDigit(s[Len(s)])
    /\ \A i \in 1..Len(s) : IsDigit(s[i]) \/ s[i] = "_"
    /\ \A i \in 1..(Len(s) - 1) : ~(s[i] = "_" /\ s[i + 1] = "_")

RECURSIVE BodyVal(_, _)
BodyVal(s, acc) ==
    IF s = <<>> THEN acc
    ELSE IF Head(s) = "_" THEN BodyVal(Tail(s), acc)
    ELSE BodyVal(Tail(s), 10 * acc + DigitVal(Head(s)))

Signed(s) == s # <<>> /\ Head(s) \in {"+", "-"}
Unsigned(s) == IF Signed(s) THEN Tail(s) ELSE s

IsIntLiteral(s) == IsIntBody(Unsigned(Strip(s)))

IntOf(s) ==
    LET t == Strip(s)
        n == BodyVal(Unsigned(t), 0)
    IN  IF Signed(t) /\ Head(t) = "-" THEN 0 - n ELSE n

(***************************************************************************)
(* config.py                                                               *)
(***************************************************************************)
DEFAULT_BASE_URL == <<"h", "t", "t", "p", "s", ":", "/", "/", "d", "e", "m", "o", ".", "p", "l", "a", "y", "w", "r", "i", "g", "h", "t", ".", "d", "e", "v", "/", "t", "o", "d", "o", "m", "v", "c", "/">>
DEFAULT_BROWSER == <<"c", "h", "r", "o", "m", "i", "u", "m">>
DEFAULT_VIEWPORT == <<"1", "2", "8", "0", "x", "7", "2", "0">>
DEFAULT_ARTIFACTS_DIR == <<"a", "r", "t", "i", "f", "a", "c", "t", "s">>
DEFAULT_TIMEOUT_MS == 10000
DEFAULT_SLOWMO_MS == 0
DEFAULT_HEADLESS == TRUE
DEFAULT_TRACE_MODE == <<"o", "n", "-", "f", "a", "i", "l", "u", "r", "e">>
DEFAULT_VIDEO_MODE == <<"o", "n", "-", "f", "a", "i", "l", "u", "r", "e">>
DEFAULT_SCREENSHOT_MODE == <<"o", "n", "-", "f", "a", "i", "l", "u", "r", "e">>
DEFAULT_LOCALE == <<"e", "n", "-", "U", "S">>
DEFAULT_TIMEZONE_ID == <<"U", "T", "C">>
MODE_CHOICES == {<<"o", "n">>, <<"o", "f", "f">>, <<"o", "n", "-", "f", "a", "i", "l", "u", "r", "e">>}
BROWSER_CHOICES == {<<"c", "h", "r", "o", "m", "i", "u", "m">>, <<"f", "i", "r", "e", "f", "o", "x">>, <<"w", "e", "b", "k", "i", "t">>}

Fields == {"base_url", "browser", "headless", "slowmo_ms", "viewport", "artifacts_dir",
           "timeout_ms", "trace", "video", "screenshot", "locale", "timezone_id"}

\* the environment variable that mirrors each option
EnvName(f) ==
    CASE f = "base_url" -> "BASE_URL"
      [] f = "browser" -> "BROWSER"
      [] f = "headless" -> "HEADLESS"
      [] f = "slowmo_ms" -> "SLOWMO_MS"
      [] f = "viewport" -> "VIEWPORT"
      [] f = "artifacts_dir" -> "ARTIFACTS_DIR"
      [] f = "timeout_ms" -> "TIMEOUT_MS"
      [] f = "trace" -> "TRACE"
      [] f = "video" -> "VIDEO"
      [] f = "screenshot" -> "SCREENSHOT"
      [] f = "locale" -> "LOCALE"
      [] f = "timezone_id" -> "TIMEZONE_ID"

EnvNames == {EnvName(f) : f \in Fields}

\* outcome of a parsing step: a value, or the ValueError it raises
Ok(x) == [ok |-> TRUE, v |-> x]
Raise(what) == [ok |-> FALSE, what |-> what]

_get_env(environ, name) ==
    IF environ[name].t = "none" THEN None
    ELSE LET value == Strip(environ[name].v)
         IN  IF value # <<>> THEN PyStr(value) ELSE None

_parse_bool(value, name) ==
    LET normalized == Lower(Strip(value))
    IN  IF normalized \in {<<"1">>, <<"t", "r", "u", "e">>, <<"y", "e", "s">>, <<"y">>, <<"o", "n">>} THEN Ok(TRUE)
        ELSE IF normalized \in {<<"0">>, <<"f", "a", "l", "s", "e">>, <<"n", "o">>, <<"n">>, <<"o", "f", "f">>} THEN Ok(FALSE)
        ELSE Raise(name)

\* the second half of _parse_int: the range check on the parsed number
NonNegative(parsed, name) == IF parsed < 0 THEN Raise(name) ELSE Ok(parsed)

_parse_int(value, name) ==
    IF ~IsIntLiteral(value) THEN Raise(name) ELSE NonNegative(IntOf(value), name)

\* str.partition("x"): the text before and after the first "x"
HasSep(s) == \E i \in 1..Len(s) : s[i] = "x"
SepAt(s) == CHOOSE i \in 1..Len(s) : s[i] = "x" /\ \A j \in 1..(i - 1) : s[j] # "x"

\* the tail of parse_viewport, once both dimensions went through _parse_int
Dimensions(width, height, zero_allowed) ==
    IF ~width.ok THEN width
    ELSE IF ~height.ok THEN height
    ELSE IF ~zero_allowed /\ (width.v = 0 \/ height.v = 0) THEN Raise("viewport")
    ELSE Ok(<<width.v, height.v>>)

SplitViewport(normalized, zero_allowed) ==
    IF ~HasSep(normalized) THEN Raise("viewport")
    ELSE Dimensions(_parse_int(SubSeq(normalized, 1, SepAt(normalized) - 1),
                               "viewport width"),
                    _parse_int(SubSeq(normalized, SepAt(normalized) + 1, Len(normalized)),
                               "viewport height"),
                    zero_allowed)

\* variant of parse_viewport: the check for zero dimensions is missing
parse_viewport_zero_allowed(value) == SplitViewport(Strip(Lower(value)), TRUE)

parse_viewport(value) == SplitViewport(Strip(Lower(value)), FALSE)

\* variant of _pick: the environment is consulted before the command line
_pick_env_first(cli_value, env_value, default_value) ==
    IF env_value.t # "none" THEN env_value
    ELSE IF cli_value.t # "none" THEN cli_value
    ELSE default_value

_pick(cli_value, env_value, default_value) ==
    IF cli_value.t # "none" THEN cli_value
    ELSE IF env_value.t # "none" THEN env_value
    ELSE default_value

\* slowmo_ms / timeout_ms: an int is taken as it is, anything else is parsed
IntField(raw, name) ==
    IF raw.t = "int" THEN Ok(raw.v) ELSE _parse_int(raw.v, name)

HeadlessField(headless_cli, headless_env) ==
    IF headless_cli.t = "bool" THEN Ok(headless_cli.v)
    ELSE IF headless_env.t # "none" THEN _parse_bool(headless_env.v, "HEADLESS")
    ELSE Ok(DEFAULT_HEADLESS)

BrowserField(raw) ==
    LET browser_name == Lower(Strip(raw.v))
    IN  IF browser_name \notin BROWSER_CHOICES THEN Raise("browser") ELSE Ok(browser_name)

ModeField(raw, mode_name) ==
    LET mode_value == Lower(raw.v)
    IN  IF mode_value \notin MODE_CHOICES THEN Raise(mode_name) ELSE Ok(mode_value)

\* Settings(...), or the first ValueError among the statements that can
\* raise, taken in execution order
Assemble(id, parsed) ==
    IF ~parsed.browser_name.ok THEN [kind |-> "ValueError", what |-> parsed.browser_name.what]
    ELSE IF ~parsed.headless.ok THEN [kind |-> "ValueError", what |-> parsed.headless.what]
    ELSE IF ~parsed.slowmo_ms.ok THEN [kind |-> "ValueError", what |-> parsed.slowmo_ms.what]
    ELSE IF ~parsed.viewport.ok THEN [kind |-> "ValueError", what |-> parsed.viewport.what]
    ELSE IF ~parsed.timeout_ms.ok THEN [kind |-> "ValueError", what |-> parsed.timeout_ms.what]
    ELSE IF ~parsed.trace.ok THEN [kind |-> "ValueError", what |-> parsed.trace.what]
    ELSE IF ~parsed.video.ok THEN [kind |-> "ValueError", what |-> parsed.video.what]
    ELSE IF ~parsed.screenshot.ok THEN [kind |-> "ValueError", what |-> parsed.screenshot.what]
    ELSE [kind |-> "Settings",
          id |-> id,
          base_url |-> parsed.base_url.v,
          browser_name |-> parsed.browser_name.v,
          headless |-> parsed.headless.v,
          slowmo_ms |-> parsed.slowmo_ms.v,
          viewport_width |-> parsed.viewport.v[1],
          viewport_height |-> parsed.viewport.v[2],
          artifacts_dir |-> parsed.artifacts_dir.v,
          timeout_ms |-> parsed.timeout_ms.v,
          trace |-> parsed.trace.v,
          video |-> parsed.video.v,
          screenshot |-> parsed.screenshot.v,
          locale |-> parsed.locale.v,
          timezone_id |-> parsed.timezone_id.v]

\* _build_settings_from_sources(cli=c) under the environment e; id is the
\* identity of the instance it constructs
_build_settings_from_sources(c, e, id) ==
    Assemble(id,
      [base_url |-> _pick(c["base_url"], _get_env(e, "BASE_URL"), PyStr(DEFAULT_BASE_URL)),
       browser_name |->
           BrowserField(_pick(c["browser"], _get_env(e, "BROWSER"), PyStr(DEFAULT_BROWSER))),
       headless |-> HeadlessField(c["headless"], _get_env(e, "HEADLESS")),
       slowmo_ms |->
           IntField(_pick(c["slowmo_ms"], _get_env(e, "SLOWMO_MS"), PyInt(DEFAULT_SLOWMO_MS)),
                    "SLOWMO_MS"),
       viewport |->
           parse_viewport(_pick(c["viewport"], _get_env(e, "VIEWPORT"),
                                PyStr(DEFAULT_VIEWPORT)).v),
       artifacts_dir |->
           _pick(c["artifacts_dir"], _get_env(e, "ARTIFACTS_DIR"), PyStr(DEFAULT_ARTIFACTS_DIR)),
       timeout_ms |->
           IntField(_pick(c["timeout_ms"], _get_env(e, "TIMEOUT_MS"), PyInt(DEFAULT_TIMEOUT_MS)),
                    "TIMEOUT_MS"),
       trace |->
           ModeField(_pick(c["trace"], _get_env(e, "TRACE"), PyStr(DEFAULT_TRACE_MODE)), "trace"),
       video |->
           ModeField(_pick(c["video"], _get_env(e, "VIDEO"), PyStr(DEFAULT_VIDEO_MODE)), "video"),
       screenshot |->
           ModeField(_pick(c["screenshot"], _get_env(e, "SCREENSHOT"),
                           PyStr(DEFAULT_SCREENSHOT_MODE)), "screenshot"),
       locale |-> _pick(c["locale"], _get_env(e, "LOCALE"), PyStr(DEFAULT_LOCALE)),
       timezone_id |->
           _pick(c["timezone_id"], _get_env(e, "TIMEZONE_ID"), PyStr(DEFAULT_TIMEZONE_ID))])

(***************************************************************************)
(* The values given to options and environment variables.  Options hold    *)
(* what the option parser or a direct caller of the builder passes: str    *)
(* for text options, int for --slowmo-ms/--timeout-ms, bool for            *)
(* --headed/--headless.  Environment variables hold raw text.              *)
(***************************************************************************)
CliChoices(f) ==
    CASE f = "base_url" -> {PyStr(s) : s \in {<<"h", "t", "t", "p", ":", "/", "/", "c">>}}
      [] f = "browser" -> {PyStr(s) : s \in {<<"f", "i", "r", "e", "f", "o", "x">>, <<" ", "W", "e", "b", "K", "i", "t">>, <<"o", "p", "e", "r", "a">>}}
      [] f = "headless" -> {PyBool(TRUE), PyBool(FALSE)}
      [] f = "slowmo_ms" -> {PyInt(0), PyInt(250), PyInt(0 - 5)}
      [] f = "viewport" -> {PyStr(s) : s \in {<<"1", "2", "8", "0", "x", "7", "2", "0">>, <<"8", "0", "0", "X", "6", "0", "0">>, <<"0", "x", "7", "2", "0">>, <<"a", "b", "c", "x", "d", "e", "f">>}}
      [] f = "artifacts_dir" -> {PyStr(s) : s \in {<<"o", "u", "t">>}}
      [] f = "timeout_ms" -> {PyInt(5000), PyInt(0 - 1)}
      [] f = "trace" -> {PyStr(s) : s \in {<<"o", "n">>, <<"O", "F", "F">>, <<"n", "e", "v", "e", "r">>}}
      [] f = "video" -> {PyStr(s) : s \in {<<"o", "f", "f">>, <<"s", "o", "m", "e", "t", "i", "m", "e", "s">>}}
      [] f = "screenshot" -> {PyStr(s) : s \in {<<"o", "n">>, <<" ", "o", "n">>}}
      [] f = "locale" -> {PyStr(s) : s \in {<<"d", "e", "-", "D", "E">>}}
      [] f = "timezone_id" -> {PyStr(s) : s \in {<<"C", "E", "T">>}}

EnvChoices(n) ==
    CASE n = "BASE_URL" -> {PyStr(s) : s \in {<<" ", "h", "t", "t", "p", ":", "/", "/", "e", " ">>, <<" ", " ">>}}
      [] n = "BROWSER" -> {PyStr(s) : s \in {<<"w", "e", "b", "k", "i", "t">>, <<"C", "h", "r", "o", "m", "i", "u", "m", " ">>, <<"i", "e">>, <<" ">>}}
      [] n = "HEADLESS" -> {PyStr(s) : s \in {<<"0">>, <<" ", "Y", "e", "s">>, <<"m", "a", "y", "b", "e">>}}
      [] n = "SLOWMO_MS" -> {PyStr(s) : s \in {<<"5", "0">>, <<"-", "5">>, <<"a", "b", "c">>, <<"1", "_", "0">>}}
      [] n = "VIEWPORT" -> {PyStr(s) : s \in {<<"6", "4", "0", "x", "4", "8", "0">>, <<"1", "2", " ", "x", " ", "7">>, <<"0", "x", "7", "2", "0">>, <<"5", "x", "-", "3">>, <<"6", "4", "0">>}}
      [] n = "ARTIFACTS_DIR" -> {PyStr(s) : s \in {<<"t", "m", "p">>, <<>>}}
      [] n = "TIMEOUT_MS" -> {PyStr(s) : s \in {<<" ", "3", "0", "0", "0">>, <<"1", ".", "5">>, <<"-", "1">>}}
      [] n = "TRACE" -> {PyStr(s) : s \in {<<"o", "n">>, <<"O", "f", "f">>, <<"n", "o", "p", "e">>}}
      [] n = "VIDEO" -> {PyStr(s) : s \in {<<"O", "N">>, <<"x">>}}
      [] n = "SCREENSHOT" -> {PyStr(s) : s \in {<<"o", "f", "f">>, <<"o", "f", " ", "f">>}}
      [] n = "LOCALE" -> {PyStr(s) : s \in {<<"f", "r", "-", "F", "R">>, <<"\t">>}}
      [] n = "TIMEZONE_ID" -> {PyStr(s) : s \in {<<"A", "s", "i", "a", "/", "T", "o", "k", "y", "o">>}}

NoOptions == [f \in Fields |-> None]
NoEnviron == [n \in EnvNames |-> None]

\* number of options and environment variables that hold a value
Given(c, e) ==
    Cardinality({f \in Fields : c[f].t # "none"})
        + Cardinality({n \in EnvNames : e[n].t # "none"})

Unresolved == [kind |-> "none"]

SettingsInit ==
    /\ cli = NoOptions
    /\ env = NoEnviron
    /\ result = Unresolved
    /\ cache = None
    /\ call = "none"
    /\ nextId = 1
    /\ builds = 0

\* an option is given on the command line (or in the dict handed to the builder)
SetOption(f, x) ==
    /\ cli[f] # x
    /\ Given([cli EXCEPT ![f] = x], env) <= MaxSet
    /\ cli' = [cli EXCEPT ![f] = x]
    /\ result' = Unresolved /\ call' = "none"
    /\ UNCHANGED <<env, cache, nextId, builds>>

\* os.environ[n] = x
Setenv(n, x) ==
    /\ env[n] # x
    /\ Given(cli, [env EXCEPT ![n] = x]) <= MaxSet
    /\ env' = [env EXCEPT ![n] = x]
    /\ result' = Unresolved /\ call' = "none"
    /\ UNCHANGED <<cli, cache, nextId, builds>>

\* del os.environ[n]
Unsetenv(n) ==
    /\ env[n].t # "none"
    /\ env' = [env EXCEPT ![n] = None]
    /\ result' = Unresolved /\ call' = "none"
    /\ UNCHANGED <<cli, cache, nextId, builds>>

\* one direct call of _build_settings_from_sources(cli=cli)
Build ==
    /\ result.kind = "none"
    /\ result' = _build_settings_from_sources(cli, env, nextId)
    /\ call' = "build"
    /\ nextId' = nextId + 1
    /\ UNCHANGED <<cli, env, cache, builds>>

\* the end of get_settings: a Settings instance is cached on the config and
\* returned; an error propagates and leaves the cache as it was
Store(settings, cached) ==
    IF settings.kind = "Settings"
    THEN [ret |-> settings, cache |-> [t |-> "obj", v |-> settings], built |-> TRUE]
    ELSE [ret |-> settings, cache |-> cached, built |-> FALSE]

\* variant of get_settings: the cache attribute is never consulted
get_settings_uncached(c, e, cached, id) ==
    Store(_build_settings_from_sources(c, e, id), cached)

\* get_settings(pytest_config): what it returns (or raises) and the cache
\* attribute it leaves on the config
get_settings(c, e, cached, id) ==
    IF cached.t # "none"
    THEN [ret |-> cached.v, cache |-> cached, built |-> FALSE]
    ELSE Store(_build_settings_from_sources(c, e, id), cached)

\* a hook or fixture calls get_settings(config)
GetSettings ==
    /\ (IF cache.t # "none" THEN TRUE ELSE nextId <= MaxInstances)
    /\ \E r \in {get_settings(cli, env, cache, nextId)} :
           /\ result' = r.ret
           /\ cache' = r.cache
           /\ call' = "config"
           /\ nextId' = IF r.built THEN nextId + 1 ELSE nextId
           /\ builds' = IF r.built THEN builds + 1 ELSE builds
    /\ UNCHANGED <<cli, env>>

\* get_settings(None): an env/default-only copy, never cached
GetSettingsNoConfig ==
    /\ nextId <= MaxInstances
    /\ \E settings \in {_build_settings_from_sources(NoOptions, env, nextId)} :
           /\ result' = settings
           /\ nextId' = IF settings.kind = "Settings" THEN nextId + 1 ELSE nextId
    /\ call' = "noconfig"
    /\ UNCHANGED <<cli, env, cache, builds>>

(***************************************************************************)
(* conftest.py: session counters fed by pytest_runtest_logreport and       *)
(* exported by pytest_sessionfinish.                                       *)
(***************************************************************************)
NodeIds == 1..MaxCases

Whens == {"setup", "call", "teardown"}
\* report.outcome: pytest's three outcomes, and "rerun" from the rerun plugin
Outcomes == {"passed", "failed", "skipped", "rerun"}

Report(nodeid, when, outcome) == [nodeid |-> nodeid, when |-> when, outcome |-> outcome]
NoReport == [nodeid |-> 0, when |-> "none", outcome |-> "none"]

\* the state pytest_runtest_logreport reads and writes
Counters(results, rerun, counted) ==
    [results |-> results, rerun |-> rerun, counted |-> counted]

\* variant of pytest_runtest_logreport: the seen-set is not consulted
logreport_recount(rep, st) ==
    IF rep.outcome = "rerun"
    THEN [st EXCEPT !.rerun = @ \cup {rep.nodeid}]
    ELSE LET should_count ==
                 \/ rep.when = "call"
                 \/ rep.when = "setup" /\ rep.outcome = "skipped"
         IN  IF ~should_count THEN st
             ELSE [st EXCEPT !.counted = @ \cup {rep.nodeid},
                             !.results[rep.outcome] = @ + 1]

\* variant of pytest_runtest_logreport: a rerun report is counted like any other
logreport_rerun_counted(rep, st) ==
    LET st1 == IF rep.outcome = "rerun"
               THEN [st EXCEPT !.rerun = @ \cup {rep.nodeid}] ELSE st
        should_count ==
            \/ rep.when = "call"
            \/ rep.when = "setup" /\ rep.outcome = "skipped"
    IN  IF ~should_count \/ rep.nodeid \in st1.counted THEN st1
        ELSE [st1 EXCEPT !.counted = @ \cup {rep.nodeid},
                         !.results = IF rep.outcome \in DOMAIN @
                                     THEN [@ EXCEPT ![rep.outcome] = @ + 1] ELSE @]

\* pytest_runtest_logreport(report)
logreport(rep, st) ==
    IF rep.outcome = "rerun"
    THEN [st EXCEPT !.rerun = @ \cup {rep.nodeid}]
    ELSE LET should_count ==
                 \/ rep.when = "call"
                 \/ rep.when = "setup" /\ rep.outcome = "skipped"
         IN  IF ~should_count \/ rep.nodeid \in st.counted THEN st
             ELSE [st EXCEPT !.counted = @ \cup {rep.nodeid},
                             !.results = IF rep.outcome \in DOMAIN @
                                         THEN [@ EXCEPT ![rep.outcome] = @ + 1] ELSE @]

pytest_runtest_logreport(rep) ==
    LET st == logreport(rep, Counters(_session_results, _rerun_nodeids, _counted_nodeids))
    IN  /\ report' = rep
        /\ _session_results' = st.results
        /\ _rerun_nodeids' = st.rerun
        /\ _counted_nodeids' = st.counted

\* The reports pytest produces for one case, by what happens to the case.
Fates == {"pass", "fail", "skip_setup", "skip_call", "error_setup", "flaky_pass"}

Script(f) ==
    CASE f = "pass" -> <<<<"setup", "passed">>, <<"call", "passed">>, <<"teardown", "passed">>>>
      [] f = "fail" -> <<<<"setup", "passed">>, <<"call", "failed">>, <<"teardown", "passed">>>>
      [] f = "skip_setup" -> <<<<"setup", "skipped">>, <<"teardown", "passed">>>>
      [] f = "skip_call" ->
             <<<<"setup", "passed">>, <<"call", "skipped">>, <<"teardown", "passed">>>>
      [] f = "error_setup" -> <<<<"setup", "failed">>, <<"teardown", "passed">>>>
      [] f = "flaky_pass" ->
             <<<<"setup", "passed">>, <<"call", "rerun">>, <<"teardown", "passed">>,
               <<"setup", "passed">>, <<"call", "passed">>, <<"teardown", "passed">>>>

\* the current case has produced all its reports (or none has started)
CaseDone == IF current = 0 THEN TRUE ELSE pos = Len(Script(fate[current]))

ReportIdleInit ==
    /\ _session_start = "none"
    /\ _session_results = [passed |-> 0, failed |-> 0, skipped |-> 0]
    /\ _rerun_nodeids = {}
    /\ _counted_nodeids = {}
    /\ report = NoReport
    /\ fate = [i \in NodeIds |-> "none"]
    /\ current = 0
    /\ pos = 0
    /\ testscollected = 0
    /\ metrics_path = FALSE
    /\ sessionPc = "created"
    /\ summary = None
    /\ driver = "runner"

ReportInit ==
    /\ _session_start = "none"
    /\ _session_results = [passed |-> 0, failed |-> 0, skipped |-> 0]
    /\ _rerun_nodeids = {}
    /\ _counted_nodeids = {}
    /\ report = NoReport
    /\ fate = [i \in NodeIds |-> "none"]
    /\ current = 0
    /\ pos = 0
    /\ testscollected \in 1..MaxCases
    /\ metrics_path = FALSE
    /\ sessionPc = "created"
    /\ summary = None
    /\ driver \in {"runner", "free"}

pytest_sessionstart ==
    /\ sessionPc = "created"
    /\ _session_start' = "set"
    /\ sessionPc' = "running"
    /\ UNCHANGED <<_session_results, _rerun_nodeids, _counted_nodeids, report, fate,
                   current, pos, testscollected, metrics_path, summary, driver>>

\* the runner moves on to the next collected case
StartCase(f) ==
    /\ sessionPc = "running"
    /\ driver = "runner"
    /\ CaseDone
    /\ current < testscollected
    /\ current' = current + 1
    /\ fate' = [fate EXCEPT ![current + 1] = f]
    /\ pos' = 0
    /\ UNCHANGED <<_session_start, _session_results, _rerun_nodeids, _counted_nodeids,
                   report, testscollected, metrics_path, sessionPc, summary, driver>>

\* the next report of the current case is produced and logged
NextReport ==
    /\ sessionPc = "running"
    /\ current > 0 /\ ~CaseDone
    /\ LET r == Script(fate[current])[pos + 1]
       IN  pytest_runtest_logreport(Report(current, r[1], r[2]))
    /\ pos' = pos + 1
    /\ UNCHANGED <<_session_start, fate, current, testscollected, metrics_path,
                   sessionPc, summary, driver>>

\* a report already produced for the current case is logged once more
DuplicateReport(i) ==
    /\ sessionPc = "running"
    /\ current > 0
    /\ i \in 1..pos
    /\ LET r == Script(fate[current])[i]
       IN  pytest_runtest_logreport(Report(current, r[1], r[2]))
    /\ UNCHANGED <<_session_start, fate, current, pos, testscollected, metrics_path,
                   sessionPc, summary, driver>>

\* the hook is called with an arbitrary report
AnyReport(nodeid, when, outcome) ==
    /\ sessionPc = "running"
    /\ driver = "free"
    /\ pytest_runtest_logreport(Report(nodeid, when, outcome))
    /\ UNCHANGED <<_session_start, fate, current, pos, testscollected, metrics_path,
                   sessionPc, summary, driver>>

SessionMetrics ==
    [total |-> testscollected,
     passed |-> _session_results["passed"],
     failed |-> _session_results["failed"],
     skipped |-> _session_results["skipped"],
     flaky |-> Cardinality(_rerun_nodeids)]

\* pytest_sessionfinish: the summary goes to write_metrics when METRICS_PATH is
\* set (duration_seconds, a clock reading, is left out of the summary)
pytest_sessionfinish(path_set) ==
    /\ sessionPc = "running"
    /\ CaseDone
    /\ sessionPc' = "finished"
    /\ metrics_path' = path_set
    /\ summary' = IF _session_start = "none" \/ ~path_set
                  THEN None
                  ELSE [t |-> "obj", v |-> SessionMetrics]
    /\ UNCHANGED <<_session_start, _session_results, _rerun_nodeids, _counted_nodeids,
                   report, fate, current, pos, testscollected, driver>>


(***************************************************************************)
(* conftest.py: pytest_runtest_setup and pytest_runtest_makereport, the    *)
(* start and end events of one test item.                                  *)
(***************************************************************************)
\* variant of the outcome derivation: the call report is looked at first
outcome_name_call_first(setup_report, call_report, teardown_report) ==
    IF call_report # "none" THEN call_report
    ELSE IF setup_report = "failed" THEN "error"
    ELSE IF setup_report = "skipped" THEN "skipped"
    ELSE IF teardown_report = "failed" THEN "error"
    ELSE teardown_report

\* the single outcome derived from the item's phase reports (makereport,
\* teardown branch); each argument is a report's outcome, "none" for None
outcome_name(setup_report, call_report, teardown_report) ==
    IF setup_report # "none" /\ setup_report = "failed" THEN "error"
    ELSE IF call_report # "none" THEN call_report
    ELSE IF setup_report # "none" /\ setup_report = "skipped" THEN "skipped"
    ELSE IF teardown_report = "failed" THEN "error"
    ELSE teardown_report

NoEvent == [event |-> "none", outcome |-> "none", timed |-> FALSE]

OutcomeInit ==
    /\ item_rep = [w \in Whens |-> "none"]
    /\ made = "none"
    /\ started = FALSE
    /\ event = NoEvent

\* pytest_runtest_setup(item): the start time is kept on the item and the
\* test_start event is logged
pytest_runtest_setup ==
    /\ started' = TRUE
    /\ event' = [event |-> "test_start", outcome |-> "none", timed |-> FALSE]
    /\ made' = "start"
    /\ UNCHANGED item_rep

\* pytest_runtest_makereport(item, call) for a report of phase `when` with
\* outcome `outcome`: the report is kept on the item; at teardown the
\* test_end event is logged with the derived outcome (duration_ms is None
\* when no start time was kept).  The html plugin is not installed.
pytest_runtest_makereport(when, outcome) ==
    /\ item_rep' = [item_rep EXCEPT ![when] = outcome]
    /\ made' = when
    /\ event' = IF when = "teardown"
                THEN [event |-> "test_end",
                      outcome |-> outcome_name(item_rep'["setup"], item_rep'["call"], outcome),
                      timed |-> started]
                ELSE event
    /\ UNCHANGED started

(***************************************************************************)
(* conftest.py: the page fixture of one test item.  Its teardown is taken  *)
(* statement by statement; every call into Playwright or the filesystem    *)
(* that the code guards against may fail.                                  *)
(***************************************************************************)
Kinds == {"screenshot", "trace", "video"}

\* the file each artifact key refers to (the video's name is chosen by Playwright)
FileOf(key) ==
    CASE key = "screenshot" -> "screenshot.png"
      [] key = "trace" -> "trace.zip"
      [] key = "console_errors" -> "console-errors.txt"
      [] key = "video" -> "video.webm"

\* variant of _should_persist: the "off" branch is missing
_should_persist_no_off(mode, failed) ==
    IF mode = <<"o", "n">> THEN TRUE ELSE failed

_should_persist(mode, failed) ==
    IF mode = <<"o", "n">> THEN TRUE
    ELSE IF mode = <<"o", "f", "f">> THEN FALSE
    ELSE failed

\* the directory as a record: exists, and the names of the files in it
Missing == [exists |-> FALSE, files |-> {}]

\* variant of _safe_remove: the is_dir branch is missing
_safe_remove_files_only(path, dir, ok, left) ==
    IF path \in dir.files
    THEN IF ok THEN [dir EXCEPT !.files = @ \ {path}] ELSE dir
    ELSE dir

\* _safe_remove(path) on the directory dir; path is "." for the directory itself,
\* else the name of a file in it.  ok: the removal succeeds; when rmtree fails
\* (errors ignored) the directory stays with the files `left` in it
_safe_remove(path, dir, ok, left) ==
    IF path \in dir.files
    THEN IF ok THEN [dir EXCEPT !.files = @ \ {path}] ELSE dir
    ELSE IF path = "." /\ dir.exists
    THEN IF ok THEN Missing ELSE [exists |-> TRUE, files |-> left]
    ELSE dir

\* no item is using the fixture
PageIdleInit ==
    /\ modes = [k \in Kinds |-> DEFAULT_TRACE_MODE]
    /\ pagePc = "new"
    /\ test_dir = Missing
    /\ tracing = "idle"
    /\ context = "none"
    /\ console_errors = 0
    /\ page_errors = 0
    /\ page_failed = FALSE
    /\ artifacts = {}
    /\ _qa_artifacts = {}
    /\ video_path_to_delete = FALSE
    /\ decided = [k \in Kinds |-> None]
    /\ written = {}
    /\ faults = {}
    /\ log = {}
    /\ calls = <<>>

\* what an earlier attempt of the same item (a rerun) may have left on disk
EarlierAttempts ==
    {Missing,
     [exists |-> TRUE, files |-> {}],
     [exists |-> TRUE, files |-> {"screenshot.png", "console-errors.txt"}]}

\* an item about to use the fixture, under any validated retention modes
PageInit ==
    /\ modes \in [Kinds -> MODE_CHOICES]
    /\ pagePc = "new"
    /\ test_dir \in EarlierAttempts
    /\ tracing = "idle"
    /\ context = "none"
    /\ console_errors = 0
    /\ page_errors = 0
    /\ page_failed = FALSE
    /\ artifacts = {}
    /\ _qa_artifacts = {}
    /\ video_path_to_delete = FALSE
    /\ decided = [k \in Kinds |-> None]
    /\ written = {}
    /\ faults = {}
    /\ log = {}
    /\ calls = <<>>

\* the fixture up to its yield: the directory is made, the context created
\* (recording its video into the directory unless video is "off"), tracing
\* started unless trace is "off"
page_setup ==
    /\ pagePc = "new"
    /\ calls' = calls \o <<"mkdir", "new_context">>
                    \o (IF modes["trace"] # <<"o", "f", "f">>
                        THEN <<"tracing.start">> ELSE <<>>)
                    \o <<"new_page">>
    /\ pagePc' = "yielded"
    /\ test_dir' = [exists |-> TRUE,
                    files |-> IF modes["video"] # <<"o", "f", "f">>
                              THEN test_dir.files \cup {"video.webm"}
                              ELSE test_dir.files]
    /\ context' = "open"
    /\ tracing' = IF modes["trace"] # <<"o", "f", "f">> THEN "started" ELSE "idle"
    /\ _qa_artifacts' = {}
    /\ UNCHANGED <<modes, console_errors, page_errors, page_failed, artifacts,
                   video_path_to_delete, decided, written, faults, log>>

\* on_console(msg) with msg.type == "error"
on_console ==
    /\ pagePc = "yielded"
    /\ UNCHANGED calls
    /\ console_errors < MaxErrors
    /\ console_errors' = console_errors + 1
    /\ UNCHANGED <<modes, pagePc, test_dir, tracing, context, page_errors, page_failed,
                   artifacts, _qa_artifacts, video_path_to_delete, decided, written,
                   faults, log>>

on_page_error ==
    /\ pagePc = "yielded"
    /\ UNCHANGED calls
    /\ page_errors < MaxErrors
    /\ page_errors' = page_errors + 1
    /\ UNCHANGED <<modes, pagePc, test_dir, tracing, context, console_errors,
                   page_failed, artifacts, _qa_artifacts, video_path_to_delete, decided,
                   written, faults, log>>

\* when pytest makes the report of a phase of an item that uses the fixture:
\* setup once the fixtures are set up (a later fixture may fail or skip),
\* call after a successful setup, teardown when the finalizers have run
PhaseReported(when, outcome) ==
    CASE when = "setup" -> pagePc = "yielded" /\ item_rep["setup"] = "none"
      [] when = "call" -> /\ pagePc = "yielded"
                          /\ item_rep["setup"] = "passed"
                          /\ item_rep["call"] = "none"
      [] when = "teardown" -> /\ pagePc \in {"done", "raised"}
                              /\ item_rep["teardown"] = "none"
                              /\ outcome # "skipped"
                              /\ pagePc = "raised" => outcome = "failed"

\* the teardown starts: failed = bool(rep_call and rep_call.failed), artifacts = {}
page_teardown ==
    /\ pagePc = "yielded"
    /\ UNCHANGED calls
    /\ item_rep["setup"] # "none"
    /\ item_rep["setup"] = "passed" => item_rep["call"] # "none"
    /\ pagePc' = "screenshot"
    /\ page_failed' = (item_rep["call"] = "failed")
    /\ artifacts' = {}
    /\ UNCHANGED <<modes, test_dir, tracing, context, console_errors, page_errors,
                   _qa_artifacts, video_path_to_delete, decided, written, faults, log>>

\* if _should_persist(settings.screenshot, failed): page.screenshot(path=...),
\* a failure of which is logged
page_screenshot(ok) ==
    /\ pagePc = "screenshot"
    /\ calls' = calls \o <<"decide:screenshot">>
                    \o (IF _should_persist(modes["screenshot"], page_failed)
                        THEN <<"page.screenshot">> ELSE <<>>)
    /\ pagePc' = "trace"
    /\ decided' = [decided EXCEPT
                     !["screenshot"] = PyBool(_should_persist(modes["screenshot"], page_failed))]
    /\ IF ~_should_persist(modes["screenshot"], page_failed)
       THEN UNCHANGED <<test_dir, artifacts, written, faults, log>>
       ELSE IF ok
       THEN /\ test_dir' = [test_dir EXCEPT !.files = @ \cup {"screenshot.png"}]
            /\ written' = written \cup {"screenshot.png"}
            /\ artifacts' = artifacts \cup {"screenshot"}
            /\ UNCHANGED <<faults, log>>
       ELSE /\ faults' = faults \cup {"page.screenshot"}
            /\ log' = log \cup {"screenshot_capture_failed"}
            /\ UNCHANGED <<test_dir, artifacts, written>>
    /\ UNCHANGED <<modes, tracing, context, console_errors, page_errors, page_failed,
                   _qa_artifacts, video_path_to_delete>>

\* variant of the trace step: tracing is stopped only when the trace is kept
page_trace_no_else(ok) ==
    /\ pagePc = "trace"
    /\ calls' = IF modes["trace"] = <<"o", "f", "f">> THEN calls
                ELSE IF _should_persist(modes["trace"], page_failed)
                THEN calls \o <<"decide:trace", "tracing.stop(path)">>
                ELSE calls \o <<"decide:trace">>
    /\ pagePc' = "console"
    /\ IF modes["trace"] = <<"o", "f", "f">>
       THEN UNCHANGED <<decided, tracing, test_dir, artifacts, written, faults, log>>
       ELSE /\ decided' = [decided EXCEPT
                             !["trace"] = PyBool(_should_persist(modes["trace"], page_failed))]
            /\ IF ok
               THEN /\ tracing' = IF _should_persist(modes["trace"], page_failed)
                               THEN "stopped" ELSE tracing
                    /\ UNCHANGED <<faults, log>>
                    /\ IF _should_persist(modes["trace"], page_failed)
                       THEN /\ test_dir' = [test_dir EXCEPT !.files = @ \cup {"trace.zip"}]
                            /\ written' = written \cup {"trace.zip"}
                            /\ artifacts' = artifacts \cup {"trace"}
                       ELSE UNCHANGED <<test_dir, artifacts, written>>
               ELSE /\ faults' = faults \cup {"tracing.stop"}
                    /\ log' = log \cup {"trace_capture_failed"}
                    /\ UNCHANGED <<tracing, test_dir, artifacts, written>>
    /\ UNCHANGED <<modes, context, console_errors, page_errors, page_failed,
                   _qa_artifacts, video_path_to_delete>>

\* if settings.trace != "off": tracing.stop, with the path when the trace is
\* to persist; a failure is logged
page_trace(ok) ==
    /\ pagePc = "trace"
    /\ calls' = IF modes["trace"] = <<"o", "f", "f">> THEN calls
                ELSE IF _should_persist(modes["trace"], page_failed)
                THEN calls \o <<"decide:trace", "tracing.stop(path)">>
                ELSE calls \o <<"decide:trace", "tracing.stop()">>
    /\ pagePc' = "console"
    /\ IF modes["trace"] = <<"o", "f", "f">>
       THEN UNCHANGED <<decided, tracing, test_dir, artifacts, written, faults, log>>
       ELSE /\ decided' = [decided EXCEPT
                             !["trace"] = PyBool(_should_persist(modes["trace"], page_failed))]
            /\ IF ok
               THEN /\ tracing' = "stopped"
                    /\ UNCHANGED <<faults, log>>
                    /\ IF _should_persist(modes["trace"], page_failed)
                       THEN /\ test_dir' = [test_dir EXCEPT !.files = @ \cup {"trace.zip"}]
                            /\ written' = written \cup {"trace.zip"}
                            /\ artifacts' = artifacts \cup {"trace"}
                       ELSE UNCHANGED <<test_dir, artifacts, written>>
               ELSE /\ faults' = faults \cup {"tracing.stop"}
                    /\ log' = log \cup {"trace_capture_failed"}
                    /\ UNCHANGED <<tracing, test_dir, artifacts, written>>
    /\ UNCHANGED <<modes, context, console_errors, page_errors, page_failed,
                   _qa_artifacts, video_path_to_delete>>

\* if failed and combined_errors: console-errors.txt is written; write_text is
\* under no try, its failure leaves the teardown
page_console_log(ok) ==
    /\ pagePc = "console"
    /\ calls' = IF page_failed /\ console_errors + page_errors > 0
                THEN Append(calls, "write_text") ELSE calls
    /\ IF ~(page_failed /\ console_errors + page_errors > 0)
       THEN /\ pagePc' = "video"
            /\ UNCHANGED <<test_dir, artifacts, written, faults>>
       ELSE IF ok
       THEN /\ pagePc' = "video"
            /\ test_dir' = [test_dir EXCEPT !.files = @ \cup {"console-errors.txt"}]
            /\ written' = written \cup {"console-errors.txt"}
            /\ artifacts' = artifacts \cup {"console_errors"}
            /\ UNCHANGED faults
       ELSE /\ pagePc' = "raised"
            /\ faults' = faults \cup {"write_text"}
            /\ UNCHANGED <<test_dir, artifacts, written>>
    /\ UNCHANGED <<modes, tracing, context, console_errors, page_errors, page_failed,
                   _qa_artifacts, video_path_to_delete, decided, log>>

\* variant of the video step: a video that is not to persist is removed at
\* once, while the context is still open
page_video_eager(ok) ==
    /\ pagePc = "video"
    /\ pagePc' = "close"
    /\ calls' = IF modes["video"] = <<"o", "f", "f">> THEN calls
                ELSE IF ~ok THEN Append(calls, "video.path")
                ELSE IF _should_persist(modes["video"], page_failed)
                THEN calls \o <<"video.path", "decide:video">>
                ELSE calls \o <<"video.path", "decide:video", "remove:video">>
    /\ IF modes["video"] = <<"o", "f", "f">>
       THEN UNCHANGED <<decided, faults, log, artifacts, test_dir>>
       ELSE IF ok
       THEN /\ decided' = [decided EXCEPT
                             !["video"] = PyBool(_should_persist(modes["video"], page_failed))]
            /\ IF _should_persist(modes["video"], page_failed)
               THEN artifacts' = artifacts \cup {"video"} /\ UNCHANGED test_dir
               ELSE test_dir' = [test_dir EXCEPT !.files = @ \ {"video.webm"}]
                    /\ UNCHANGED artifacts
            /\ UNCHANGED <<faults, log>>
       ELSE /\ faults' = faults \cup {"video.path"}
            /\ log' = log \cup {"video_capture_failed"}
            /\ UNCHANGED <<decided, artifacts, test_dir>>
    /\ _qa_artifacts' = artifacts'
    /\ UNCHANGED <<modes, tracing, context, console_errors, page_errors,
                   page_failed, written, video_path_to_delete>>

\* page.video is None unless the context records video; video.path() may
\* fail, which is logged; then item._qa_artifacts = artifacts
page_video(ok) ==
    /\ pagePc = "video"
    /\ calls' = IF modes["video"] = <<"o", "f", "f">> THEN calls
                ELSE IF ok THEN calls \o <<"video.path", "decide:video">>
                ELSE Append(calls, "video.path")
    /\ pagePc' = "close"
    /\ IF modes["video"] = <<"o", "f", "f">>
       THEN /\ UNCHANGED <<decided, video_path_to_delete, faults, log>>
            /\ _qa_artifacts' = artifacts
            /\ UNCHANGED artifacts
       ELSE IF ok
       THEN /\ decided' = [decided EXCEPT
                             !["video"] = PyBool(_should_persist(modes["video"], page_failed))]
            /\ IF _should_persist(modes["video"], page_failed)
               THEN /\ artifacts' = artifacts \cup {"video"}
                    /\ UNCHANGED video_path_to_delete
               ELSE /\ video_path_to_delete' = TRUE
                    /\ UNCHANGED artifacts
            /\ _qa_artifacts' = artifacts'
            /\ UNCHANGED <<faults, log>>
       ELSE /\ faults' = faults \cup {"video.path"}
            /\ log' = log \cup {"video_capture_failed"}
            /\ _qa_artifacts' = artifacts
            /\ UNCHANGED <<decided, video_path_to_delete, artifacts>>
    /\ UNCHANGED <<modes, test_dir, tracing, context, console_errors, page_errors,
                   page_failed, written>>

\* context.close(), under no try
page_close(ok) ==
    /\ pagePc = "close"
    /\ calls' = Append(calls, "context.close")
    /\ IF ok
       THEN /\ pagePc' = "rm_video"
            /\ context' = "closed"
            /\ UNCHANGED faults
       ELSE /\ pagePc' = "raised"
            /\ faults' = faults \cup {"context.close"}
            /\ UNCHANGED context
    /\ UNCHANGED <<modes, test_dir, tracing, console_errors, page_errors, page_failed,
                   artifacts, _qa_artifacts, video_path_to_delete, decided, written, log>>

\* if video_path_to_delete is not None: _safe_remove(video_path_to_delete);
\* a failing unlink is logged
page_remove_video(ok) ==
    /\ pagePc = "rm_video"
    /\ calls' = IF video_path_to_delete THEN Append(calls, "remove:video") ELSE calls
    /\ pagePc' = "rm_dir"
    /\ IF video_path_to_delete
       THEN /\ test_dir' = _safe_remove("video.webm", test_dir, ok, {})
            /\ IF ok
               THEN UNCHANGED <<faults, log>>
               ELSE /\ faults' = faults \cup {"unlink"}
                    /\ log' = log \cup {"artifact_cleanup_failed"}
       ELSE UNCHANGED <<test_dir, faults, log>>
    /\ UNCHANGED <<modes, tracing, context, console_errors, page_errors, page_failed,
                   artifacts, _qa_artifacts, video_path_to_delete, decided, written>>

\* if not artifacts and test_dir.exists(): _safe_remove(test_dir); rmtree
\* ignores its errors, so nothing is logged when it fails
page_remove_dir(ok, left) ==
    /\ pagePc = "rm_dir"
    /\ calls' = IF artifacts = {} /\ test_dir.exists
                THEN Append(calls, "remove:test_dir") ELSE calls
    /\ pagePc' = "done"
    /\ IF artifacts = {} /\ test_dir.exists
       THEN /\ test_dir' = _safe_remove(".", test_dir, ok, left)
            /\ faults' = IF ok THEN faults ELSE faults \cup {"rmtree"}
       ELSE UNCHANGED <<test_dir, faults>>
    /\ UNCHANGED <<modes, tracing, context, console_errors, page_errors, page_failed,
                   artifacts, _qa_artifacts, video_path_to_delete, decided, written, log>>

(***************************************************************************)
(* conftest.py: _sanitize_nodeid and the directory each case is given.     *)
(***************************************************************************)
\* the characters node ids are made of: a letter, the two characters that are
\* kept but stripped at the ends, and one that is replaced
IdChars == {"a", "_", ".", "/"}

\* \w, as far as the characters in use go
WordChars == {"a", "e", "s", "t", "_"}

\* [\w.-]
Kept(c) == c \in WordChars \cup {".", "-"}

RECURSIVE SkipReplaced(_)
SkipReplaced(s) ==
    IF s = <<>> THEN <<>>
    ELSE IF Kept(Head(s)) THEN s
    ELSE SkipReplaced(Tail(s))

\* re.sub(r"[^\w.-]+", "__", s): every maximal run of other characters
\* becomes "__"
RECURSIVE ReSub(_)
ReSub(s) ==
    IF s = <<>> THEN <<>>
    ELSE IF Kept(Head(s)) THEN <<Head(s)>> \o ReSub(Tail(s))
    ELSE <<"_", "_">> \o ReSub(SkipReplaced(Tail(s)))

\* s.strip(chars)
RECURSIVE LStripChars(_, _)
LStripChars(s, chars) ==
    IF s = <<>> THEN <<>>
    ELSE IF Head(s) \in chars THEN LStripChars(Tail(s), chars)
    ELSE s

RECURSIVE RStripChars(_, _)
RStripChars(s, chars) ==
    IF s = <<>> THEN <<>>
    ELSE IF s[Len(s)] \in chars THEN RStripChars(SubSeq(s, 1, Len(s) - 1), chars)
    ELSE s

StripChars(s, chars) == RStripChars(LStripChars(s, chars), chars)

\* the name used when nothing is left
Placeholder(sanitized) == IF sanitized = <<>> THEN <<"t", "e", "s", "t">> ELSE sanitized

\* variant of _sanitize_nodeid: the ends are not stripped
_sanitize_nodeid_unstripped(nodeid) == Placeholder(ReSub(nodeid))

_sanitize_nodeid(nodeid) == Placeholder(StripChars(ReSub(nodeid), {".", "_"}))

RECURSIVE StringsUpTo(_)
StringsUpTo(n) ==
    IF n = 0 THEN {<<>>}
    ELSE StringsUpTo(n - 1) \cup
         {Append(s, c) : s \in {t \in StringsUpTo(n - 1) : Len(t) = n - 1}, c \in IdChars}

Cases == {1, 2}

DirsIdleInit ==
    /\ nodeids = [i \in Cases |-> <<>>]
    /\ artifact_dir = [i \in Cases |-> None]
    /\ resanitized = [i \in Cases |-> None]

\* two cases of a run, under any two node ids (a node id is never empty)
DirsInit ==
    /\ nodeids \in [Cases -> StringsUpTo(MaxIdLen) \ {<<>>}]
    /\ artifact_dir = [i \in Cases |-> None]
    /\ resanitized = [i \in Cases |-> None]

\* test_dir = settings.artifacts_dir / _sanitize_nodeid(request.node.nodeid)
BeginCase(i) ==
    /\ artifact_dir[i] = None
    /\ artifact_dir' = [artifact_dir EXCEPT ![i] = PyStr(_sanitize_nodeid(nodeids[i]))]
    /\ UNCHANGED <<nodeids, resanitized>>

\* _sanitize_nodeid applied to a name it produced
Resanitize(i) ==
    /\ artifact_dir[i] # None
    /\ resanitized[i] = None
    /\ resanitized' = [resanitized EXCEPT ![i] = PyStr(_sanitize_nodeid(artifact_dir[i].v))]
    /\ UNCHANGED <<nodeids, artifact_dir>>

(***************************************************************************)
(* metrics.py: write_metrics, and a reader of the path it writes.          *)
(***************************************************************************)
Target == "metrics.prom"

\* variant of the temporary path: the target itself
tmp_path_in_place(target) == target

\* target.with_suffix(f"{target.suffix}.tmp")
tmp_path(target) == "metrics.prom.tmp"

Paths == {Target, "metrics.prom.tmp"}

\* the content of a file: the bytes of write `v`, the first n chunks of them
Content(v, n) == [t |-> "obj", v |-> [v |-> v, n |-> n]]

MetricsIdleInit ==
    /\ files = [p \in Paths |-> None]
    /\ writePc = "idle"
    /\ writes = 0
    /\ seen = [t |-> "unread"]

\* before the first call: the target may hold the file of an earlier session,
\* the temporary path what an interrupted write left
MetricsInit ==
    /\ files \in [Paths -> {None, Content(0, Chunks)}] \cup
                 {[p \in Paths |-> IF p = Target THEN x ELSE Content(0, 1)] :
                      x \in {None, Content(0, Chunks)}}
    /\ writePc = "idle"
    /\ writes = 0
    /\ seen = [t |-> "unread"]

\* write_metrics(path, summary) is called: the registry is filled
write_metrics ==
    /\ writePc \in {"idle", "done", "raised"}
    /\ writes < MaxWrites
    /\ writes' = writes + 1
    /\ writePc' = "open"
    /\ UNCHANGED <<files, seen>>

\* tmp_path.write_bytes(...): the file is opened, which truncates it
write_bytes_open ==
    /\ writePc = "open"
    /\ files' = [files EXCEPT ![tmp_path(Target)] = Content(writes, 0)]
    /\ writePc' = "write"
    /\ UNCHANGED <<writes, seen>>

\* tmp_path.write_bytes(...): the next chunk reaches the file, or the write
\* fails and write_metrics raises
write_bytes_chunk(ok) ==
    /\ writePc = "write"
    /\ files[tmp_path(Target)].v.n < Chunks
    /\ IF ok
       THEN /\ files' = [files EXCEPT ![tmp_path(Target)] = Content(writes, @.v.n + 1)]
            /\ writePc' = IF files[tmp_path(Target)].v.n + 1 = Chunks THEN "replace" ELSE "write"
       ELSE /\ writePc' = "raised"
            /\ UNCHANGED files
    /\ UNCHANGED <<writes, seen>>

\* tmp_path.replace(target): one rename, or an error that write_metrics raises
replace(ok) ==
    /\ writePc = "replace"
    /\ IF ok
       THEN /\ files' = IF tmp_path(Target) = Target THEN files
                        ELSE [files EXCEPT ![Target] = files[tmp_path(Target)],
                                           ![tmp_path(Target)] = None]
            /\ writePc' = "done"
       ELSE /\ writePc' = "raised"
            /\ UNCHANGED files
    /\ UNCHANGED <<writes, seen>>

\* another process reads the target path
read_target ==
    /\ seen' = files[Target]
    /\ seen' # seen
    /\ UNCHANGED <<files, writePc, writes>>

(***************************************************************************)
(* pages/base_page.py: BasePage.goto.                                      *)
(***************************************************************************)
\* how a page.goto can end: it returns, raises Playwright's TimeoutError, or
\* raises another error
Ends == {"returned", "TimeoutError", "Error"}

\* the paths goto is called with
GotoPaths == {"", "#/active"}

\* variant of the except clause: any exception is caught
except_any(exc) == exc # "returned"

\* except PlaywrightTimeoutError
except_PlaywrightTimeoutError(exc) == exc = "TimeoutError"

GotoInit ==
    /\ gotoPc = "idle"
    /\ url = ""
    /\ attempts = <<>>
    /\ history = <<>>

\* goto(path) is called
goto(path) ==
    /\ gotoPc = "idle"
    /\ Len(history) < MaxGotos
    /\ gotoPc' = "try"
    /\ url' = path
    /\ attempts' = <<>>
    /\ UNCHANGED history

\* the page.goto in the try block ends with `exc`
goto_try(exc) ==
    /\ gotoPc = "try"
    /\ attempts' = Append(attempts, exc)
    /\ IF except_PlaywrightTimeoutError(exc)
       THEN gotoPc' = "except" /\ UNCHANGED history
       ELSE /\ gotoPc' = "idle"
            /\ history' = Append(history, [url |-> url, attempts |-> attempts', ended |-> exc])
    /\ UNCHANGED url

\* the page.goto in the except block ends with `exc`
goto_except(exc) ==
    /\ gotoPc = "except"
    /\ attempts' = Append(attempts, exc)
    /\ gotoPc' = "idle"
    /\ history' = Append(history, [url |-> url, attempts |-> attempts', ended |-> exc])
    /\ UNCHANGED url

(***************************************************************************)
(* SpecResolve: options and environment are set, then the builder is       *)
(* called once.                                                            *)
(***************************************************************************)
ResolveInit == SettingsInit /\ ReportIdleInit /\ OutcomeInit /\ PageIdleInit /\ DirsIdleInit /\ MetricsIdleInit /\ GotoInit

ResolveNext ==
    \/ \E f \in Fields : \E x \in CliChoices(f) :
           result.kind = "none" /\ SetOption(f, x) /\ UNCHANGED NotSettings
    \/ \E n \in EnvNames : \E x \in EnvChoices(n) :
           result.kind = "none" /\ Setenv(n, x) /\ UNCHANGED NotSettings
    \/ Build /\ UNCHANGED NotSettings

SpecResolve == ResolveInit /\ [][ResolveNext]_vars

(***************************************************************************)
(* SpecCache: one pytest config whose hooks and fixtures call get_settings *)
(* while options and environment variables keep changing.                  *)
(***************************************************************************)
CacheFields == {"browser", "timeout_ms"}

CacheInit == SettingsInit /\ ReportIdleInit /\ OutcomeInit /\ PageIdleInit /\ DirsIdleInit /\ MetricsIdleInit /\ GotoInit

CacheNext ==
    \/ \E f \in CacheFields : \E x \in CliChoices(f) \cup {None} :
           SetOption(f, x) /\ UNCHANGED NotSettings
    \/ \E f \in CacheFields : \E x \in EnvChoices(EnvName(f)) :
           Setenv(EnvName(f), x) /\ UNCHANGED NotSettings
    \/ \E f \in CacheFields : Unsetenv(EnvName(f)) /\ UNCHANGED NotSettings
    \/ GetSettings /\ UNCHANGED NotSettings
    \/ GetSettingsNoConfig /\ UNCHANGED NotSettings

SpecCache == CacheInit /\ [][CacheNext]_vars

(***************************************************************************)
(* SpecReport: one session, its reports logged by pytest's runner case by  *)
(* case (any report may be logged again), or by callers bound to no        *)
(* pattern.                                                                *)
(***************************************************************************)
ReportNext ==
    \/ pytest_sessionstart /\ UNCHANGED NotReport
    \/ \E f \in Fates : StartCase(f) /\ UNCHANGED NotReport
    \/ NextReport /\ UNCHANGED NotReport
    \/ \E i \in 1..pos : DuplicateReport(i) /\ UNCHANGED NotReport
    \/ \E n \in 1..MaxFreeIds : \E w \in Whens : \E o \in Outcomes :
           AnyReport(n, w, o) /\ UNCHANGED NotReport
    \/ \E path_set \in BOOLEAN : pytest_sessionfinish(path_set) /\ UNCHANGED NotReport

SessionInit == ReportInit /\ SettingsInit /\ OutcomeInit /\ PageIdleInit /\ DirsIdleInit /\ MetricsIdleInit /\ GotoInit

SpecReport == SessionInit /\ [][ReportNext]_vars

(***************************************************************************)
(* SpecOutcome: the hooks of one test item, called with any report.        *)
(***************************************************************************)
OutcomeNext ==
    \/ pytest_runtest_setup /\ UNCHANGED NotOutcome
    \/ \E w \in Whens : \E o \in Outcomes :
           pytest_runtest_makereport(w, o) /\ UNCHANGED NotOutcome

ItemInit == SettingsInit /\ ReportIdleInit /\ OutcomeInit /\ PageIdleInit /\ DirsIdleInit /\ MetricsIdleInit /\ GotoInit

SpecOutcome == ItemInit /\ [][OutcomeNext]_vars

(***************************************************************************)
(* SpecPage: one test item that uses the page fixture, from the fixture's  *)
(* setup through the phase reports to the end of its teardown.             *)
(***************************************************************************)
PhaseOutcomes == {"passed", "failed", "skipped"}

PageNext ==
    \/ pytest_runtest_setup /\ pagePc = "new" /\ ~started /\ UNCHANGED NotOutcome
    \/ page_setup /\ UNCHANGED NotPage
    \/ on_console /\ UNCHANGED NotPage
    \/ on_page_error /\ UNCHANGED NotPage
    \/ \E w \in Whens : \E o \in PhaseOutcomes :
           PhaseReported(w, o) /\ pytest_runtest_makereport(w, o) /\ UNCHANGED NotOutcome
    \/ page_teardown /\ UNCHANGED NotPage
    \/ \E ok \in BOOLEAN : page_screenshot(ok) /\ UNCHANGED NotPage
    \/ \E ok \in BOOLEAN : page_trace(ok) /\ UNCHANGED NotPage
    \/ \E ok \in BOOLEAN : page_console_log(ok) /\ UNCHANGED NotPage
    \/ \E ok \in BOOLEAN : page_video(ok) /\ UNCHANGED NotPage
    \/ \E ok \in BOOLEAN : page_close(ok) /\ UNCHANGED NotPage
    \/ \E ok \in BOOLEAN : page_remove_video(ok) /\ UNCHANGED NotPage
    \/ \E ok \in BOOLEAN : \E left \in SUBSET test_dir.files :
           page_remove_dir(ok, left) /\ UNCHANGED NotPage

FixtureInit == PageInit /\ SettingsInit /\ ReportIdleInit /\ OutcomeInit /\ DirsIdleInit /\ MetricsIdleInit /\ GotoInit

SpecPage == FixtureInit /\ [][PageNext]_vars

(***************************************************************************)
(* SpecDirs: two cases of one run are given their directories.             *)
(***************************************************************************)
DirsNext ==
    \/ \E i \in Cases : BeginCase(i) /\ UNCHANGED NotDirs
    \/ \E i \in Cases : Resanitize(i) /\ UNCHANGED NotDirs

RunInit == DirsInit /\ SettingsInit /\ ReportIdleInit /\ OutcomeInit /\ PageIdleInit /\ MetricsIdleInit /\ GotoInit

SpecDirs == RunInit /\ [][DirsNext]_vars

(***************************************************************************)
(* SpecMetrics: write_metrics is called on one path, one call at a time,   *)
(* while another process reads the path at any moment.                     *)
(***************************************************************************)
MetricsNext ==
    \/ write_metrics /\ UNCHANGED NotMetrics
    \/ write_bytes_open /\ UNCHANGED NotMetrics
    \/ \E ok \in BOOLEAN : write_bytes_chunk(ok) /\ UNCHANGED NotMetrics
    \/ \E ok \in BOOLEAN : replace(ok) /\ UNCHANGED NotMetrics
    \/ read_target /\ UNCHANGED NotMetrics

ExportInit == MetricsInit /\ SettingsInit /\ ReportIdleInit /\ OutcomeInit /\ PageIdleInit /\ DirsIdleInit /\ GotoInit

SpecMetrics == ExportInit /\ [][MetricsNext]_vars

(***************************************************************************)
(* SpecGoto: goto is called on one page object, call after call.           *)
(***************************************************************************)
GotoNext ==
    \/ \E path \in GotoPaths : goto(path) /\ UNCHANGED NotGoto
    \/ \E exc \in Ends : goto_try(exc) /\ UNCHANGED NotGoto
    \/ \E exc \in Ends : goto_except(exc) /\ UNCHANGED NotGoto

NavigationInit == GotoInit /\ SettingsInit /\ ReportIdleInit /\ OutcomeInit /\ PageIdleInit /\ DirsIdleInit /\ MetricsIdleInit

SpecGoto == NavigationInit /\ [][GotoNext]_vars

(***************************************************************************)
(* Settings resolution: claims C1 - C4.                                    *)
(***************************************************************************)
\* where the value of field f comes from, as the precedence rule states it
SourceOf(f) ==
    IF cli[f].t # "none" THEN "cli"
    ELSE IF env[EnvName(f)].t # "none" /\ Strip(env[EnvName(f)].v) # <<>> THEN "env"
    ELSE "default"

EnvText(f) == Strip(env[EnvName(f)].v)

\* the text selected for a text-valued field
SelectedText(f, default) ==
    CASE SourceOf(f) = "cli" -> cli[f].v
      [] SourceOf(f) = "env" -> EnvText(f)
      [] OTHER -> default

SelectedInt(f, default) ==
    CASE SourceOf(f) = "cli" -> cli[f].v
      [] SourceOf(f) = "env" -> IntOf(EnvText(f))
      [] OTHER -> default

SelectedBool(f, default) ==
    CASE SourceOf(f) = "cli" -> cli[f].v
      [] SourceOf(f) = "env" -> Lower(EnvText(f)) \in
                                    {<<"1">>, <<"t","r","u","e">>, <<"y","e","s">>,
                                     <<"y">>, <<"o","n">>}
      [] OTHER -> default

\* C1: every field of a resolved Settings comes from the command line if the
\* option was given, else from the environment variable if it is set and not
\* blank after trimming, else from the built-in default, each field on its own,
\* whatever the other fields' sources are.  Text is compared after the field's
\* normalisation (browser trimmed and lower-cased, modes lower-cased, viewport
\* parsed into its two dimensions); a value the option parser admits is
\* returned unchanged.
C1_Precedence ==
    result.kind = "Settings" =>
        /\ result.base_url = SelectedText("base_url", DEFAULT_BASE_URL)
        /\ result.browser_name = Lower(Strip(SelectedText("browser", DEFAULT_BROWSER)))
        /\ SelectedText("browser", DEFAULT_BROWSER) \in BROWSER_CHOICES
               => result.browser_name = SelectedText("browser", DEFAULT_BROWSER)
        /\ result.headless = SelectedBool("headless", TRUE)
        /\ result.slowmo_ms = SelectedInt("slowmo_ms", 0)
        /\ <<result.viewport_width, result.viewport_height>>
               = parse_viewport(SelectedText("viewport", DEFAULT_VIEWPORT)).v
        /\ result.artifacts_dir = SelectedText("artifacts_dir", DEFAULT_ARTIFACTS_DIR)
        /\ result.timeout_ms = SelectedInt("timeout_ms", DEFAULT_TIMEOUT_MS)
        /\ result.trace = Lower(SelectedText("trace", DEFAULT_TRACE_MODE))
        /\ result.video = Lower(SelectedText("video", DEFAULT_VIDEO_MODE))
        /\ result.screenshot = Lower(SelectedText("screenshot", DEFAULT_SCREENSHOT_MODE))
        /\ \A f \in {"trace", "video", "screenshot"} :
               SelectedText(f, DEFAULT_TRACE_MODE) \in MODE_CHOICES
                   => result[f] = SelectedText(f, DEFAULT_TRACE_MODE)
        /\ result.locale = SelectedText("locale", <<"e","n","-","U","S">>)
        /\ result.timezone_id = SelectedText("timezone_id", <<"U","T","C">>)

\* a resolved run in which --browser overrides a valid, different BROWSER
C1_Witness ==
    /\ result.kind = "Settings"
    /\ cli["browser"] = PyStr(<<"f","i","r","e","f","o","x">>)
    /\ env["BROWSER"] = PyStr(<<"w","e","b","k","i","t">>)
    /\ result.browser_name = <<"f","i","r","e","f","o","x">>

\* WIDTHxHEIGHT with both dimensions integers > 0, case and outer blanks aside
ViewportWellFormed(s) ==
    LET n == Strip(Lower(s))
    IN  \E i \in 1..Len(n) :
            /\ n[i] = "x"
            /\ IsIntLiteral(SubSeq(n, 1, i - 1)) /\ IntOf(SubSeq(n, 1, i - 1)) > 0
            /\ IsIntLiteral(SubSeq(n, i + 1, Len(n))) /\ IntOf(SubSeq(n, i + 1, Len(n))) > 0

\* the selected browser, modes and viewport are all acceptable
SelectionValid ==
    /\ Lower(Strip(SelectedText("browser", DEFAULT_BROWSER))) \in
           {<<"c","h","r","o","m","i","u","m">>, <<"f","i","r","e","f","o","x">>,
            <<"w","e","b","k","i","t">>}
    /\ \A f \in {"trace", "video", "screenshot"} :
           Lower(SelectedText(f, DEFAULT_TRACE_MODE)) \in
               {<<"o","n">>, <<"o","f","f">>, <<"o","n","-","f","a","i","l","u","r","e">>}
    /\ ViewportWellFormed(SelectedText("viewport", DEFAULT_VIEWPORT))

\* C2: a resolution whose selected browser is not chromium/firefox/webkit, or
\* one of whose selected trace/video/screenshot modes is not on/off/on-failure,
\* or whose selected viewport is not WIDTHxHEIGHT with both dimensions > 0,
\* raises a validation error and returns no Settings, whether the value came
\* from the command line or from the environment; "1280x720" resolves to
\* 1280 by 720, "0x720" and "abcxdef" fail.
C2_Validation ==
    call = "build" =>
        /\ ~SelectionValid => result.kind = "ValueError"
        /\ SelectedText("viewport", DEFAULT_VIEWPORT)
               \in {<<"0","x","7","2","0">>, <<"a","b","c","x","d","e","f">>}
               => result.kind = "ValueError"
        /\ (/\ SelectedText("viewport", DEFAULT_VIEWPORT)
                   = <<"1","2","8","0","x","7","2","0">>
            /\ result.kind = "Settings")
               => result.viewport_width = 1280 /\ result.viewport_height = 720

\* --viewport 0x720 on the command line and TRACE=nope in the environment
C2_Witness ==
    /\ call = "build"
    /\ cli["viewport"] = PyStr(<<"0","x","7","2","0">>)
    /\ env["TRACE"] = PyStr(<<"n","o","p","e">>)
    /\ result.kind = "ValueError"

\* C3: every Settings that is returned has slowmo_ms >= 0 and timeout_ms >= 0,
\* whether the integer came from the command line or from the environment.
C3_NonNegativeIntegers ==
    result.kind = "Settings" => result.slowmo_ms >= 0 /\ result.timeout_ms >= 0

\* C4: within one config, Settings are constructed at most once; once the
\* cache is filled it never changes, and every later get_settings(config)
\* returns that very instance, whatever options and environment hold by then.
C4_CachedOnce ==
    [][/\ cache.t # "none" => cache' = cache
       /\ builds' <= 1
       /\ (call' = "config" /\ result'.kind = "Settings")
              => cache'.t # "none" /\ result' = cache'.v]_vars

\* get_settings(config) returned the cached instance although a fresh
\* resolution of the current options and environment would differ from it
C4_Witness ==
    /\ call = "config"
    /\ cache.t # "none"
    /\ result = cache.v
    /\ builds = 1
    /\ _build_settings_from_sources(cli, env, cache.v.id) # cache.v

(***************************************************************************)
(* Session counters: claims C6 - C8.                                       *)
(***************************************************************************)
Sum(r) == r["passed"] + r["failed"] + r["skipped"]

\* number of cases of the session that met fate f
NumFate(f) == Cardinality({i \in NodeIds : fate[i] = f})

\* a session run by pytest's runner is over and every collected case was run
RunComplete == driver = "runner" /\ sessionPc = "finished" /\ current = testscollected

\* C6: whatever reports are logged, in whatever order and however often, the
\* passed/failed/skipped counters grow by at most one per report, only on a
\* call-phase report or a skipped setup-phase report, and only for a node id
\* not counted before, so their sum is the number of counted ids; a complete
\* run of cases that pass, fail in call or are skipped at setup ends with the
\* counters equal to the numbers of such cases (3 pass, 1 fail, 1 skipped at
\* setup gives passed=3, failed=1, skipped=1).
C6_CountedOnce ==
    [][/\ \A k \in {"passed", "failed", "skipped"} :
              _session_results'[k] >= _session_results[k]
       /\ Sum(_session_results') <= Sum(_session_results) + 1
       /\ Sum(_session_results') # Sum(_session_results) =>
              /\ report'.nodeid \notin _counted_nodeids
              /\ _counted_nodeids' = _counted_nodeids \cup {report'.nodeid}
              /\ \/ report'.when = "call"
                 \/ report'.when = "setup" /\ report'.outcome = "skipped"
       /\ Sum(_session_results') = Cardinality(_counted_nodeids')
       /\ (/\ driver' = "runner" /\ sessionPc' = "finished" /\ current' = testscollected'
           /\ \A i \in 1..current' : fate'[i] \in {"pass", "fail", "skip_setup"})
              => _session_results' =
                     [passed |-> Cardinality({i \in NodeIds : fate'[i] = "pass"}),
                      failed |-> Cardinality({i \in NodeIds : fate'[i] = "fail"}),
                      skipped |-> Cardinality({i \in NodeIds : fate'[i] = "skip_setup"})]
      ]_vars

\* the run of 5 cases: 3 pass, 1 fails, 1 is skipped at setup
C6_Witness ==
    /\ RunComplete
    /\ current = 5
    /\ NumFate("pass") = 3 /\ NumFate("fail") = 1 /\ NumFate("skip_setup") = 1
    /\ _session_results = [passed |-> 3, failed |-> 1, skipped |-> 1]

\* C7: at the end of a run in which every case went through its reports
\* (passed, failed in call, skipped, or failed during setup), each case has
\* incremented exactly one counter: passed + failed + skipped is the number of
\* cases executed and matches the exported total.
C7_ExactlyOncePerCase ==
    (/\ RunComplete
     /\ \A i \in 1..current :
            fate[i] \in {"pass", "fail", "skip_setup", "skip_call", "error_setup"})
        => /\ Sum(_session_results) = current
           /\ summary.t # "none" =>
                  summary.v.passed + summary.v.failed + summary.v.skipped = summary.v.total

\* C8: a report whose outcome is "rerun" leaves passed/failed/skipped and the
\* counted set as they are and adds its node id to the flaky set; at the end
\* of a run every case that was rerun and then passed has counted once as
\* passed, and the exported flaky value is the number of cases that were rerun.
C8_RerunIsFlakyOnly ==
    [][/\ report'.outcome = "rerun" =>
              /\ _session_results' = _session_results
              /\ _counted_nodeids' = _counted_nodeids
              /\ _rerun_nodeids' = _rerun_nodeids \cup {report'.nodeid}
       /\ (driver' = "runner" /\ sessionPc' = "finished") =>
              /\ _session_results'["passed"] =
                     Cardinality({i \in NodeIds : fate'[i] \in {"pass", "flaky_pass"}})
              /\ _rerun_nodeids' = {i \in NodeIds : fate'[i] = "flaky_pass"}
              /\ summary'.t # "none" =>
                     summary'.v.flaky = Cardinality({i \in NodeIds : fate'[i] = "flaky_pass"})
      ]_vars

\* a finished session whose only case was rerun once and then passed
C8_Witness ==
    /\ driver = "runner" /\ sessionPc = "finished"
    /\ current = 1 /\ fate[1] = "flaky_pass"
    /\ _session_results = [passed |-> 1, failed |-> 0, skipped |-> 0]
    /\ summary.t # "none" /\ summary.v.flaky = 1 /\ summary.v.passed = 1

(***************************************************************************)
(* Outcome of a case: claim C9.                                            *)
(***************************************************************************)
\* the precedence as the claim words it: the last resort is the teardown
\* report's own outcome
ClaimedOutcome(setup_report, call_report, teardown_report) ==
    IF setup_report = "failed" THEN "error"
    ELSE IF call_report # "none" THEN call_report
    ELSE IF setup_report = "skipped" THEN "skipped"
    ELSE teardown_report

\* C9 as claimed: the outcome in the test_end event is 'error' if the setup
\* report failed, else the call report's outcome if there is one, else
\* 'skipped' if the setup report was skipped, else the teardown report's
\* outcome.
C9_OutcomeAsClaimed ==
    made = "teardown" =>
        /\ event.event = "test_end"
        /\ event.outcome = ClaimedOutcome(item_rep["setup"], item_rep["call"], item_rep["teardown"])

\* C9, amended: ... else 'error' if the teardown report failed, else the
\* teardown report's outcome.
C9_OutcomePrecedence ==
    made = "teardown" =>
        /\ event.event = "test_end"
        /\ event.outcome =
               CASE item_rep["setup"] = "failed" -> "error"
                 [] item_rep["setup"] # "failed" /\ item_rep["call"] # "none" -> item_rep["call"]
                 [] item_rep["setup"] = "skipped" /\ item_rep["call"] = "none" -> "skipped"
                 [] OTHER -> IF item_rep["teardown"] = "failed" THEN "error"
                             ELSE item_rep["teardown"]

\* a failed setup next to a call report that passed: the event says 'error'
C9_Witness ==
    /\ made = "teardown"
    /\ item_rep["setup"] = "failed" /\ item_rep["call"] = "passed"
    /\ event.event = "test_end" /\ event.outcome = "error"

(***************************************************************************)
(* Artifact lifecycle: claims C5 and C10.                                  *)
(***************************************************************************)
\* C5: whenever the teardown has asked _should_persist about a kind, the
\* answer is the one of the table: true under "on", false under "off", and
\* under "on-failure" true exactly when the case failed - whatever else the
\* state of the item is.
C5_RetentionTable ==
    \A k \in Kinds :
        decided[k] # None =>
            /\ modes[k] = <<"o", "n">> => decided[k] = PyBool(TRUE)
            /\ modes[k] = <<"o", "f", "f">> => decided[k] = PyBool(FALSE)
            /\ modes[k] = <<"o", "n", "-", "f", "a", "i", "l", "u", "r", "e">>
                   => decided[k] = PyBool(page_failed)

C5_Witness ==
    /\ modes["screenshot"] = <<"o", "f", "f">> /\ decided["screenshot"] = PyBool(FALSE)
    /\ modes["trace"] = <<"o", "n", "-", "f", "a", "i", "l", "u", "r", "e">>
    /\ decided["trace"] = PyBool(TRUE)
    /\ modes["video"] = <<"o", "n">> /\ decided["video"] = PyBool(TRUE)
    /\ page_failed

\* a case whose call phase passed, under "on-failure" for all three kinds,
\* whose teardown has run to its end
PassedAllOnFailure ==
    /\ pagePc = "done"
    /\ item_rep["call"] = "passed"
    /\ \A k \in Kinds : modes[k] = <<"o", "n", "-", "f", "a", "i", "l", "u", "r", "e">>

CaseFailed == item_rep["setup"] = "failed" \/ item_rep["call"] = "failed"

\* C11: after the teardown of a failing case under screenshot mode
\* "on-failure", when page.screenshot did not fail, the case directory exists,
\* holds screenshot.png written by this teardown, and the item's artifact map
\* has the "screenshot" key - however the case failed.
C11_ScreenshotOnAnyFailure ==
    (/\ pagePc = "done"
     /\ CaseFailed
     /\ modes["screenshot"] = <<"o", "n", "-", "f", "a", "i", "l", "u", "r", "e">>
     /\ "page.screenshot" \notin faults)
        => /\ test_dir.exists
           /\ "screenshot.png" \in test_dir.files
           /\ "screenshot.png" \in written
           /\ "screenshot" \in _qa_artifacts

\* the capture calls of the teardown
CaptureCalls == {"page.screenshot", "tracing.stop", "write_text", "video.path"}

\* C12: a failed capture call raises nothing out of the teardown (only
\* context.close can end it early), is logged when the code has an event for
\* it, and leaves the later steps to run: a teardown in which a capture
\* failed ends with the context closed.
C12_CapturesIndependent ==
    /\ "page.screenshot" \in faults => "screenshot_capture_failed" \in log
    /\ "tracing.stop" \in faults => "trace_capture_failed" \in log
    /\ "video.path" \in faults => "video_capture_failed" \in log
    /\ pagePc = "raised" => "context.close" \in faults
    /\ (pagePc = "done" /\ faults \cap CaptureCalls # {}) => context = "closed"

\* how often x occurs in the sequence seq, and where it occurs first (0: nowhere)
Count(seq, x) == Cardinality({i \in 1..Len(seq) : seq[i] = x})
IndexOf(seq, x) == IF Count(seq, x) = 0 THEN 0 ELSE CHOOSE i \in 1..Len(seq) : seq[i] = x /\ \A j \in 1..(i - 1) : seq[j] # x

StopCalls == Count(calls, "tracing.stop(path)") + Count(calls, "tracing.stop()")
StopIndex == IF Count(calls, "tracing.stop()") > 0 THEN IndexOf(calls, "tracing.stop()") ELSE IndexOf(calls, "tracing.stop(path)")

\* C13: under trace mode "off" tracing is neither started nor stopped.
\* Otherwise tracing is started once at setup and tracing.stop is called at
\* most once, exactly once - and earlier - by the time context.close is
\* called; it is called with the path only when the trace is to persist ("on",
\* or "on-failure" for a failed case) and without one only when it is not, and
\* trace.zip is written and recorded only when the trace is to persist.
C13_TracingStoppedOnce ==
    IF modes["trace"] = <<"o", "f", "f">>
    THEN Count(calls, "tracing.start") = 0 /\ StopCalls = 0 /\ tracing = "idle"
    ELSE /\ pagePc # "new" => Count(calls, "tracing.start") = 1
         /\ StopCalls <= 1
         /\ StopCalls = 1 => IndexOf(calls, "tracing.start") < StopIndex
         /\ Count(calls, "context.close") > 0 =>
                StopCalls = 1 /\ StopIndex < IndexOf(calls, "context.close")
         /\ Count(calls, "tracing.stop(path)") > 0 =>
                (modes["trace"] = <<"o", "n">> \/ page_failed)
         /\ Count(calls, "tracing.stop()") > 0 =>
                (modes["trace"] # <<"o", "n">> /\ ~page_failed)
         /\ ("trace.zip" \in written \/ "trace" \in artifacts) =>
                Count(calls, "tracing.stop(path)") = 1

C13_Witness ==
    /\ modes["trace"] = <<"o", "n", "-", "f", "a", "i", "l", "u", "r", "e">>
    /\ item_rep["call"] = "passed"
    /\ context = "closed"
    /\ Count(calls, "tracing.stop()") = 1
    /\ tracing = "stopped"

\* C14: console-errors.txt is never written for a case that did not fail or
\* showed no error, and once the teardown is over the file is written, and
\* listed in the item's artifact map, exactly when the case failed and at
\* least one console error or page error was observed.
C14_ConsoleLogIffFailedWithErrors ==
    /\ "console-errors.txt" \in written =>
           CaseFailed /\ console_errors + page_errors > 0
    /\ pagePc = "done" =>
           (("console-errors.txt" \in written /\ "console_errors" \in _qa_artifacts)
                <=> (CaseFailed /\ console_errors + page_errors > 0))

\* C15: two cases with distinct node ids are given distinct directories.
C15_ExclusiveDirectories ==
    (nodeids[1] # nodeids[2] /\ artifact_dir[1] # None /\ artifact_dir[2] # None)
        => artifact_dir[1] # artifact_dir[2]

\* C16: the name _sanitize_nodeid gives is never empty, is "test" whenever
\* nothing of the node id is left after replacing and stripping, and
\* sanitizing it again gives the same name.
C16_NonEmptyIdempotent ==
    \A i \in Cases :
        /\ artifact_dir[i] # None =>
               /\ artifact_dir[i].v # <<>>
               /\ (\A j \in 1..Len(nodeids[i]) : nodeids[i][j] \in {"_", ".", "/"})
                      => artifact_dir[i].v = <<"t", "e", "s", "t">>
        /\ resanitized[i] # None => resanitized[i] = artifact_dir[i]

C16_Witness ==
    /\ nodeids[1] = <<".", "a", "/">> /\ artifact_dir[1] = PyStr(<<"a">>)
    /\ resanitized[1] = PyStr(<<"a">>)
    /\ nodeids[2] = <<"/", ".">> /\ artifact_dir[2] = PyStr(<<"t", "e", "s", "t">>)
    /\ resanitized[2] = PyStr(<<"t", "e", "s", "t">>)

\* call x was made, and made before the first call y
Before(x, y) == Count(calls, x) > 0 /\ IndexOf(calls, x) < IndexOf(calls, y)
Made(x) == Count(calls, x) > 0

Decisions == {"decide:screenshot", "decide:trace", "decide:video"}
Captures == {"page.screenshot", "tracing.stop(path)", "tracing.stop()", "write_text", "video.path"}

Whole(content) == content = None \/ content.v.n = Chunks

\* C18: the target path never holds a partially written file, and what a
\* reader read is no file, or the whole content of an earlier write or
\* session, or the whole content of the current write; when write_metrics
\* has returned, the target holds the whole new content and the temporary
\* file is gone.
C18_AtomicPublish ==
    /\ Whole(files[Target])
    /\ files[Target] # None => files[Target].v.v <= writes
    /\ seen.t # "unread" => Whole(seen)
    /\ writePc = "done" =>
           /\ files[Target] = Content(writes, Chunks)
           /\ files["metrics.prom.tmp"] = None

C18_Witness ==
    /\ writePc = "write"
    /\ writes = 2
    /\ files["metrics.prom.tmp"] = Content(2, 1)
    /\ files[Target] = Content(1, Chunks)
    /\ seen = Content(1, Chunks)

(***************************************************************************)
(* Navigation: claim C19.                                                  *)
(***************************************************************************)
\* C19: a goto call makes one or two attempts; a second one exactly when the
\* first raised TimeoutError; and the call ends the way its last attempt
\* ended - it returns if that returned, raises what that raised.  A call under
\* way has made at most one attempt when it is to make another.
C19_AtMostOneRetry ==
    /\ \A i \in 1..Len(history) :
           /\ Len(history[i].attempts) \in {1, 2}
           /\ Len(history[i].attempts) = 2 <=> history[i].attempts[1] = "TimeoutError"
           /\ history[i].ended = history[i].attempts[Len(history[i].attempts)]
    /\ gotoPc = "try" => attempts = <<>>
    /\ gotoPc = "except" => attempts = <<"TimeoutError">>

C19_Witness ==
    /\ Len(history) = 2
    /\ history[1].attempts = <<"TimeoutError", "Error">> /\ history[1].ended = "Error"
    /\ history[2].attempts = <<"Error">> /\ history[2].ended = "Error"

====
